---- MODULE Spec2Model ----
(***************************************************************************)
(* Crossword CSP solver (generate.py, class CrosswordCreator): node        *)
(* consistency, AC-3 and backtracking search over the domains of the       *)
(* crossword's variables (slots).                                          *)
(*                                                                         *)
(* Words are tuples of letters.  Python offsets are 0-based, tuples are    *)
(* 1-based: `w[i:i+1]` is Slice(w, i).                                     *)
(***************************************************************************)
EXTENDS Naturals, Sequences, FiniteSets, TLC

VARIABLES
    crossword,   \* self.crossword: [variables, words], immutable
    domains,     \* self.domains: variable -> set of words
    pc,          \* position of the control flow inside solve()
    pending,     \* ac3: arcs of the initial list not popped yet
    arcs,        \* ac3: arcs appended to the list by the loop, last = top
    ac3ret,      \* ac3: "True" or "False" as the last call returned, "none" before
    ac3start,    \* history: domains when the current ac3 call began
    ac3calls,    \* history: number of ac3 calls made so far
    assignment,  \* backtrack: the one dict shared by all recursive calls
    stack,       \* backtrack: frames of the active calls, last = innermost
    result       \* what solve() returned: "running", "None", "assignment"

vars == <<crossword, domains, pc, pending, arcs, ac3ret, ac3start, ac3calls,
          assignment, stack, result>>

(***************************************************************************)
(* Bounds of the model                                                     *)
(***************************************************************************)
\* largest vocabulary handed to the solver
MaxVocab == 5

\* the words a vocabulary is drawn from: of the slots' lengths 2 and 3,
\* agreeing and disagreeing at every crossing offset
Dictionary == {<<"a", "a">>, <<"a", "b">>, <<"b", "b">>,
               <<"a", "a", "a">>, <<"a", "b", "a">>, <<"b", "a", "a">>,
               <<"b", "a", "b">>}

Vocabularies == {W \in SUBSET Dictionary : Cardinality(W) <= MaxVocab}

(***************************************************************************)
(* The structural model (crossword.py: Variable, Crossword)                *)
(***************************************************************************)
ACROSS == "across"
DOWN == "down"

Variable(i, j, direction, length) ==
    [i |-> i, j |-> j, direction |-> direction, length |-> length]

\* ___      a 3-letter across slot over a 2-letter one, crossed by
\* __#      two 2-letter down slots (a cycle of four crossings)
GridRing == {Variable(0, 0, ACROSS, 3), Variable(1, 0, ACROSS, 2),
             Variable(0, 0, DOWN, 2), Variable(0, 1, DOWN, 2)}

\* __#_     a crossing pair of 2-letter slots and a 3-letter down slot
\* _##_     that crosses nothing
\* ###_
GridIsolated == {Variable(0, 0, ACROSS, 2), Variable(0, 0, DOWN, 2),
                 Variable(0, 3, DOWN, 3)}

Grids == {GridRing, GridIsolated}

None == <<>>

\* the grid cell of the k-th letter (0-based) of variable v
Cell(v, k) == <<v.i + (IF v.direction = DOWN THEN k ELSE 0),
                v.j + (IF v.direction = ACROSS THEN k ELSE 0)>>

\* crossword.overlaps[x, y]: None, or <<i, j>>: x's i-th letter is y's j-th
Overlaps(x, y) ==
    LET common == {c \in (0..(x.length - 1)) \X (0..(y.length - 1)) :
                      Cell(x, c[1]) = Cell(y, c[2])}
    IN IF x = y \/ common = {} THEN None ELSE CHOOSE c \in common : TRUE

\* crossword.neighbors(var)
Neighbors(var) ==
    {v \in crossword.variables : v # var /\ Overlaps(v, var) # None}

(***************************************************************************)
(* Python helpers                                                          *)
(***************************************************************************)
\* w[i:i+1]: the one-letter slice at 0-based offset i, empty past the end
Slice(w, i) == IF i < Len(w) THEN <<w[i + 1]>> ELSE <<>>

\* the orders in which a set may be iterated
Orders(S) ==
    {o \in [1..Cardinality(S) -> S] :
        \A a, b \in 1..Cardinality(S) : a # b => o[a] # o[b]}

Last(s) == s[Len(s)]
Front(s) == SubSeq(s, 1, Len(s) - 1)

(***************************************************************************)
(* Initial state: CrosswordCreator.__init__                                *)
(***************************************************************************)
Init ==
    /\ crossword \in [variables : Grids, words : Vocabularies]
    /\ domains = [var \in crossword.variables |-> crossword.words]
    /\ pc = "node"
    /\ pending = {}
    /\ arcs = <<>>
    /\ ac3ret = "none"
    /\ ac3start = domains
    /\ ac3calls = 0
    /\ assignment = <<>>
    /\ stack = <<>>
    /\ result = "running"

(***************************************************************************)
(* Consistency engine                                                      *)
(***************************************************************************)
\* the domains after enforce_node_consistency
NodeConsistent(doms) ==
    [variable \in DOMAIN doms |->
        {value \in doms[variable] : variable.length = Len(value)}]

\* solve() line 94
EnforceNodeConsistency ==
    /\ pc = "node"
    /\ domains' = NodeConsistent(domains)
    /\ pc' = "ac3_init"
    /\ UNCHANGED <<crossword, pending, arcs, ac3ret, ac3start, ac3calls,
                   assignment, stack, result>>

\* revise comparing both words at x's offset
ReviseSameOffset(doms, x, y) ==
    LET cell == Overlaps(x, y)
    IN IF cell = None
       THEN doms[x]
       ELSE {value_x \in doms[x] :
                \E value_y \in doms[y] :
                    Slice(value_x, cell[1]) = Slice(value_y, cell[1])}

\* revise(x, y): the domain of x it leaves behind (revised iff it differs)
Revise(doms, x, y) ==
    LET cell == Overlaps(x, y)
    IN IF cell = None
       THEN doms[x]
       ELSE {value_x \in doms[x] :
                \E value_y \in doms[y] :
                    Slice(value_x, cell[1]) = Slice(value_y, cell[2])}

\* every (variable, neighbor) pair: the initial list of ac3
AllArcs == {a \in crossword.variables \X crossword.variables :
               a[2] \in Neighbors(a[1])}

\* ac3 lines 168-172.  The list is built variable by variable in the
\* iteration order of two hash sets; which arc ends where is decided when
\* it is popped (PopChoices).
Ac3Init ==
    /\ pc = "ac3_init"
    /\ pending' = AllArcs
    /\ arcs' = <<>>
    /\ ac3start' = domains
    /\ ac3calls' = ac3calls + 1
    /\ pc' = "ac3"
    /\ UNCHANGED <<crossword, domains, ac3ret, assignment, stack, result>>

\* arcs that arcs.pop() can return among the initial ones: the arcs of one
\* variable are adjacent in the list, so a variable whose arcs were popped
\* in part is finished first
PopChoices ==
    LET left(x) == {a \in pending : a[1] = x}
        open == {x \in crossword.variables :
                    left(x) # {} /\ left(x) # {a \in AllArcs : a[1] = x}}
    IN IF open = {} THEN pending ELSE {a \in pending : a[1] \in open}

\* ac3 appending nothing after a revision
EnqueuedNothing(x, y) == {<<>>}

\* ac3 appending (x, z) instead of (z, x)
EnqueuedReversed(x, y) ==
    {[k \in 1..Len(o) |-> <<x, o[k]>>] : o \in Orders(Neighbors(x) \ {y})}

\* the arcs (z, x) appended after a revision of x against y, in the order
\* the neighbor set is iterated
Enqueued(x, y) ==
    {[k \in 1..Len(o) |-> <<o[k], x>>] : o \in Orders(Neighbors(x) \ {y})}

\* the loop body appending the arcs whether or not revise changed anything
Ac3ReviseAlwaysEnqueue(x, y, restPending, restArcs) ==
    \E revised \in {Revise(domains, x, y)} :
       /\ domains' = [domains EXCEPT ![x] = revised]
       /\ IF revised # domains[x] /\ revised = {}
          THEN /\ ac3ret' = "False"
               /\ pc' = "ac3_returned"
               /\ pending' = {}
               /\ arcs' = <<>>
          ELSE /\ pending' = restPending
               /\ \E more \in Enqueued(x, y) : arcs' = restArcs \o more
               /\ UNCHANGED <<ac3ret, pc>>
       /\ UNCHANGED <<crossword, ac3start, ac3calls, assignment, stack, result>>

\* one iteration of the while loop on arc (x, y), lines 177-187, with the
\* rest of the worklist given.  The list is a local of ac3: `return False`
\* drops what is left of it.
Ac3Revise(x, y, restPending, restArcs) ==
    \E revised \in {Revise(domains, x, y)} :
       /\ domains' = [domains EXCEPT ![x] = revised]
       /\ IF revised = domains[x]
          THEN /\ pending' = restPending
               /\ arcs' = restArcs
               /\ UNCHANGED <<ac3ret, pc>>
          ELSE IF revised = {}
          THEN /\ ac3ret' = "False"
               /\ pc' = "ac3_returned"
               /\ pending' = {}
               /\ arcs' = <<>>
          ELSE /\ pending' = restPending
               /\ \E more \in Enqueued(x, y) : arcs' = restArcs \o more
               /\ UNCHANGED <<ac3ret, pc>>
       /\ UNCHANGED <<crossword, ac3start, ac3calls, assignment, stack, result>>

\* while len(arcs) != 0: (x, y) = arcs.pop() ...
Ac3Step ==
    /\ pc = "ac3"
    /\ IF arcs # <<>>
       THEN \E a \in {Last(arcs)} :
               Ac3Revise(a[1], a[2], pending, Front(arcs))
       ELSE \E a \in PopChoices :
               Ac3Revise(a[1], a[2], pending \ {a}, arcs)

\* the worklist is empty: return True (line 188)
Ac3Return ==
    /\ pc = "ac3"
    /\ arcs = <<>>
    /\ pending = {}
    /\ ac3ret' = "True"
    /\ pc' = "ac3_returned"
    /\ UNCHANGED <<crossword, domains, pending, arcs, ac3start, ac3calls,
                   assignment, stack, result>>

(***************************************************************************)
(* Search engine                                                           *)
(***************************************************************************)
\* the membership test of assignment_complete turned around
AssignmentCompleteReversed(asg) ==
    \A variable \in DOMAIN asg : variable \in crossword.variables

AssignmentComplete(asg) ==
    \A variable \in crossword.variables : variable \in DOMAIN asg

\* consistent without the comparison of the overlapping letters
ConsistentLengthOnly(asg) ==
    \A variable \in DOMAIN asg : Len(asg[variable]) = variable.length

\* consistent(assignment); a dict holds no key twice, so the duplicate test
\* of lines 215-216 never rejects
Consistent(asg) ==
    \A variable \in DOMAIN asg :
        /\ Len(asg[variable]) = variable.length
        /\ \A neighbor \in Neighbors(variable) :
              neighbor \in DOMAIN asg =>
                 Slice(asg[variable], Overlaps(variable, neighbor)[1])
                    = Slice(asg[neighbor], Overlaps(variable, neighbor)[2])

RECURSIVE SumOver(_, _)
SumOver(S, f) ==
    IF S = {} THEN 0
    ELSE LET e == CHOOSE e \in S : TRUE IN f[e] + SumOver(S \ {e}, f)

\* order_domain_values: conflict_count of val, lines 246-258
ConflictCount(var, val, asg) ==
    LET unassigned == Neighbors(var) \ DOMAIN asg
        conflicts ==
            [neighbor \in unassigned |->
                Cardinality({neighbor_value \in domains[neighbor] :
                    Slice(val, Overlaps(var, neighbor)[1])
                       # Slice(neighbor_value, Overlaps(var, neighbor)[2])})]
    IN SumOver(unassigned, conflicts)

\* math.inf: above every domain size
Infinity == Cardinality(crossword.words) + 1

\* select_unassigned_variable lines 279-298 over crossword.variables in
\* iteration order `order`, from its k-th element on: the final
\* min_remaining_values list
RECURSIVE MinRemainingValues(_, _, _, _, _)
MinRemainingValues(order, asg, k, min_values, lst) ==
    IF k > Len(order) THEN lst
    ELSE LET var == order[k]
             remaining_values == Cardinality(domains[var])
         IN IF var \in DOMAIN asg
            THEN MinRemainingValues(order, asg, k + 1, min_values, lst)
            ELSE IF remaining_values = min_values
            THEN MinRemainingValues(order, asg, k + 1, min_values,
                                    Append(lst, var))
            ELSE IF remaining_values < min_values
            THEN MinRemainingValues(order, asg, k + 1, remaining_values,
                                    <<var>>)
            ELSE MinRemainingValues(order, asg, k + 1, min_values, lst)

\* lines 305-317: the final max_var
RECURSIVE MaxDegree(_, _, _, _)
MaxDegree(lst, k, max_neighbors, max_var) ==
    IF k > Len(lst) THEN max_var
    ELSE LET neighbors == Cardinality(Neighbors(lst[k]))
         IN IF neighbors > max_neighbors
            THEN MaxDegree(lst, k + 1, neighbors, lst[k])
            ELSE MaxDegree(lst, k + 1, max_neighbors, max_var)

\* select_unassigned_variable without the degree tie-break
SelectFirstMinimum(order, asg) ==
    MinRemainingValues(order, asg, 1, Infinity, <<>>)[1]

SelectUnassignedVariable(order, asg) ==
    LET min_remaining_values ==
            MinRemainingValues(order, asg, 1, Infinity, <<>>)
    IN IF Len(min_remaining_values) = 1
       THEN min_remaining_values[1]
       ELSE MaxDegree(min_remaining_values, 1,
                      Cardinality(Neighbors(min_remaining_values[1])),
                      min_remaining_values[1])

\* solve() line 96: backtrack(dict())
SolveBacktrack ==
    /\ pc = "ac3_returned"
    /\ assignment' = <<>>
    /\ stack' = <<>>
    /\ pc' = "call"
    /\ UNCHANGED <<crossword, domains, pending, arcs, ac3ret, ac3start,
                   ac3calls, result>>

\* entry of backtrack(assignment), lines 329-335.  A frame keeps the
\* selected variable, the values the for loop has not reached yet with the
\* conflict counts they were sorted by, and (history) the assignment the
\* call was entered with.
BacktrackCall ==
    /\ pc = "call"
    /\ IF AssignmentComplete(assignment)
       THEN /\ result' = "assignment"
            /\ pc' = "return"
            /\ UNCHANGED stack
       ELSE /\ \E order \in Orders(crossword.variables) :
                 \E var \in {SelectUnassignedVariable(order, assignment)} :
                    stack' = Append(stack,
                       [var |-> var,
                        rem |-> domains[var],
                        cc |-> [val \in domains[var] |->
                                   ConflictCount(var, val, assignment)],
                        entry |-> assignment])
            /\ pc' = "loop"
            /\ UNCHANGED result
    /\ UNCHANGED <<crossword, domains, pending, arcs, ac3ret, ac3start,
                   ac3calls, assignment>>

\* the values the sorted list can hold next: sorted() is stable, equal
\* conflict counts stay in the iteration order of the domain set
NextValues(frame) ==
    {val \in frame.rem : \A other \in frame.rem : frame.cc[val] <= frame.cc[other]}

\* one iteration of the for loop, lines 335-348.  `del assignment_copy[var]`
\* acts on the copy; the shared assignment keeps what line 341 wrote.
BacktrackTry ==
    /\ pc = "loop"
    /\ Last(stack).rem # {}
    /\ \E value \in NextValues(Last(stack)) :
          LET frame == Last(stack)
              assignment_copy == (frame.var :> value) @@ assignment
          IN /\ stack' = [stack EXCEPT ![Len(stack)].rem = frame.rem \ {value}]
             /\ IF Consistent(assignment_copy)
                THEN /\ assignment' = (frame.var :> value) @@ assignment
                     /\ pc' = "call"
                ELSE UNCHANGED <<assignment, pc>>
    /\ UNCHANGED <<crossword, domains, pending, arcs, ac3ret, ac3start,
                   ac3calls, result>>

\* the for loop is over: return None (line 350); the caller's
\* `result is not None` fails and its loop goes on
BacktrackFail ==
    /\ pc = "loop"
    /\ Last(stack).rem = {}
    /\ stack' = Front(stack)
    /\ IF Len(stack) = 1
       THEN result' = "None" /\ pc' = "done"
       ELSE UNCHANGED <<result, pc>>
    /\ UNCHANGED <<crossword, domains, pending, arcs, ac3ret, ac3start,
                   ac3calls, assignment>>

\* a call returned the assignment: every caller returns it at once
\* (lines 345-346), down to solve()
BacktrackReturn ==
    /\ pc = "return"
    /\ IF stack = <<>>
       THEN pc' = "done" /\ UNCHANGED stack
       ELSE stack' = Front(stack) /\ UNCHANGED pc
    /\ UNCHANGED <<crossword, domains, pending, arcs, ac3ret, ac3start,
                   ac3calls, assignment, result>>

Next ==
    \/ EnforceNodeConsistency
    \/ Ac3Init
    \/ Ac3Step
    \/ Ac3Return
    \/ SolveBacktrack
    \/ BacktrackCall
    \/ BacktrackTry
    \/ BacktrackFail
    \/ BacktrackReturn

Spec == Init /\ [][Next]_vars

(***************************************************************************)
(* Other drivers of the consistency engine                                 *)
(***************************************************************************)
\* ac3 is called again right after it returned True
Ac3Again ==
    /\ pc = "ac3_returned"
    /\ ac3ret = "True"
    /\ ac3calls = 1
    /\ pc' = "ac3_init"
    /\ UNCHANGED <<crossword, domains, pending, arcs, ac3ret, ac3start,
                   ac3calls, assignment, stack, result>>

NextTwice ==
    \/ EnforceNodeConsistency
    \/ Ac3Init
    \/ Ac3Step
    \/ Ac3Return
    \/ Ac3Again

SpecTwice == Init /\ [][NextTwice]_vars

\* the while loop of ac3 taking any arc of the worklist instead of the last
Ac3StepAnyOrder ==
    /\ pc = "ac3"
    /\ \E k \in 0..Len(arcs) :
          IF k = 0
          THEN \E a \in pending : Ac3Revise(a[1], a[2], pending \ {a}, arcs)
          ELSE Ac3Revise(arcs[k][1], arcs[k][2], pending,
                         SubSeq(arcs, 1, k - 1) \o SubSeq(arcs, k + 1, Len(arcs)))

NextAnyOrder ==
    \/ EnforceNodeConsistency
    \/ Ac3Init
    \/ Ac3StepAnyOrder
    \/ Ac3Return

SpecAnyOrder == Init /\ [][NextAnyOrder]_vars

\* solve() runs to its end: no step is postponed forever
SpecFair == Spec /\ WF_vars(Next)

(***************************************************************************)
(* What the claims speak of                                                *)
(***************************************************************************)
\* the complete assignments of vocabulary words meeting every slot length
\* and every overlap
IsSolution(a) ==
    /\ \A v \in crossword.variables : Len(a[v]) = v.length
    /\ \A v \in crossword.variables : \A n \in Neighbors(v) :
          a[v][Overlaps(v, n)[1] + 1] = a[n][Overlaps(v, n)[2] + 1]

Solutions ==
    {a \in [crossword.variables -> crossword.words] : IsSolution(a)}

Done == pc = "done"

\* every word of x's domain has a partner in each neighbor's domain
ArcConsistent(doms) ==
    \A x \in crossword.variables : \A y \in Neighbors(x) :
        \A w \in doms[x] : \E v \in doms[y] :
            w[Overlaps(x, y)[1] + 1] = v[Overlaps(x, y)[2] + 1]

\* one simultaneous pruning round of every domain against its neighbors
PruneAll(doms) ==
    [x \in crossword.variables |->
        {w \in doms[x] : \A y \in Neighbors(x) : \E v \in doms[y] :
            w[Overlaps(x, y)[1] + 1] = v[Overlaps(x, y)[2] + 1]}]

\* the greatest arc-consistent domains inside doms
RECURSIVE GreatestFixedPoint(_)
GreatestFixedPoint(doms) ==
    IF PruneAll(doms) = doms THEN doms ELSE GreatestFixedPoint(PruneAll(doms))

(***************************************************************************)
(* Claims                                                                  *)
(***************************************************************************)
\* C1: an assignment returned by solve has an entry for every slot, every
\* word has its slot's length, and neighboring slots agree on the letter of
\* their shared cell.
C1_ReturnedAssignmentIsSolution ==
    (Done /\ result = "assignment") =>
        /\ DOMAIN assignment = crossword.variables
        /\ IsSolution(assignment)

C1_Witness ==
    /\ Done
    /\ result = "assignment"
    /\ crossword.variables = GridRing
    /\ \E v \in GridRing : Cardinality(domains[v]) > 1

\* C2: solve returns failure only when no complete assignment of vocabulary
\* words meets every length and overlap constraint.
C2_FailureOnlyIfUnsolvable ==
    (Done /\ result = "None") => Solutions = {}

\* C3: with an empty domain when the search starts, solve returns None,
\* whatever ac3 returned.
C3_EmptyDomainFails ==
    (pc \in {"call", "loop", "return", "done"}
        /\ \E v \in crossword.variables : domains[v] = {})
    => (result # "assignment" /\ (Done => result = "None"))

C3_Witness ==
    /\ Done
    /\ result = "None"
    /\ ac3ret = "True"
    /\ \E v \in crossword.variables :
          /\ domains[v] = {}
          /\ \A w \in crossword.words : Len(w) # v.length
    /\ \E v \in crossword.variables : domains[v] # {}

\* C4: enforce_node_consistency and ac3 only shrink domains, and never
\* remove a word that some solution assigns to the slot.
C4_PruningMonotoneAndSound ==
    /\ [][\A v \in crossword.variables : domains'[v] \subseteq domains[v]]_vars
    /\ [](\A a \in Solutions : \A v \in crossword.variables :
             a[v] \in domains[v])

C4_Witness ==
    /\ pc = "ac3_returned"
    /\ Solutions # {}
    /\ \E v \in crossword.variables :
          domains[v] # NodeConsistent([u \in crossword.variables |->
                                          crossword.words])[v]

\* C5: a second call of ac3 right after one that returned True removes no
\* word and returns True.
C5_Ac3Idempotent ==
    ac3calls = 2 =>
        /\ domains = ac3start
        /\ pc = "ac3_returned" => ac3ret = "True"

C5_Witness ==
    /\ ac3calls = 2
    /\ pc = "ac3_returned"
    /\ \E v \in crossword.variables :
          domains[v] # NodeConsistent([u \in crossword.variables |->
                                          crossword.words])[v]

\* C6: when ac3 returns True no domain is empty and every word of a domain
\* has a partner in each neighbor's domain.
C6_Ac3TrueMeansNonEmptyArcConsistent ==
    (pc = "ac3_returned" /\ ac3ret = "True") =>
        /\ \A x \in crossword.variables : domains[x] # {}
        /\ ArcConsistent(domains)

\* C7: when a call of backtrack returns failure, the assignment holds
\* exactly the entries it held when the call began.
C7_FailureRestoresAssignment ==
    (pc = "loop" /\ Last(stack).rem = {}) => assignment = Last(stack).entry

\* C8: whatever arc is taken from the worklist, ac3 returns the same value,
\* and when it returns True the domains are the greatest arc-consistent
\* ones inside the domains it started with.
C8_Ac3OrderIndependent ==
    pc = "ac3_returned" =>
        LET gfp == GreatestFixedPoint(ac3start)
        IN /\ (ac3ret = "True") =
                 (\A v \in crossword.variables :
                     gfp[v] = {} => ac3start[v] = {})
           /\ ac3ret = "True" => domains = gfp

C8_Witness ==
    /\ pc = "ac3_returned"
    /\ ac3ret = "True"
    /\ Cardinality({v \in crossword.variables : domains[v] # ac3start[v]}) > 1

\* C9: solve terminates; ac3 appends arcs only after a revision that
\* shrank a domain, and backtrack recurses only with more slots assigned
\* than the calling invocation started with.
C9_SolveTerminates ==
    /\ <>Done
    /\ [][(pc = "ac3" /\ pc' = "ac3" /\ domains' = domains)
            => (arcs' = arcs \/ arcs' = Front(arcs)
                   \/ \E k \in 1..Len(arcs) :
                        arcs' = SubSeq(arcs, 1, k - 1)
                                  \o SubSeq(arcs, k + 1, Len(arcs)))]_vars
    /\ [][(pc = "loop" /\ pc' = "call")
            => Cardinality(DOMAIN assignment')
                  > Cardinality(DOMAIN Last(stack).entry)]_vars

C9_Witness ==
    /\ Done
    /\ result = "None"
    /\ ac3ret = "True"
    /\ \A v \in crossword.variables : domains[v] # {}

\* C10: select_unassigned_variable returns an unassigned slot of minimum
\* domain size and, among those, of maximum neighbor count.
C10_SelectMinRemainingMaxDegree ==
    \A k \in 1..Len(stack) :
        LET frame == stack[k]
            unassigned == crossword.variables \ DOMAIN frame.entry
            size(v) == Cardinality(domains[v])
            smallest == {v \in unassigned :
                            \A u \in unassigned : size(v) <= size(u)}
        IN /\ frame.var \in smallest
           /\ \A u \in smallest :
                 Cardinality(Neighbors(u)) <= Cardinality(Neighbors(frame.var))

C10_Witness ==
    \E k \in 1..Len(stack) :
        LET frame == stack[k]
            unassigned == crossword.variables \ DOMAIN frame.entry
            size(v) == Cardinality(domains[v])
            smallest == {v \in unassigned :
                            \A u \in unassigned : size(v) <= size(u)}
        IN /\ Cardinality(smallest) > 1
           /\ \E u \in smallest :
                 Cardinality(Neighbors(u)) < Cardinality(Neighbors(frame.var))

====
